---- MODULE Spec2Model ----
(***************************************************************************)
(* Model of packages/evolu-common/src/Crypto.ts: SecretBoxLive (seal and   *)
(* open), slip21Derive, NanoIdGenerator.Live, the NodeId schema and the    *)
(* Bip39 service interface.                                                *)
(*                                                                         *)
(* Byte strings (Uint8Array) are sequences of 0..255.  JavaScript strings  *)
(* are sequences of UTF-16 code units.  The third-party primitives the     *)
(* file calls (@noble/ciphers secretbox, @noble/hashes hmac/sha512 and     *)
(* randomBytes, nanoid) are not part of the repository: they are modelled  *)
(* by small stand-ins with the same interface, lengths and failure cases   *)
(* (see each definition), and every statement of Crypto.ts itself is       *)
(* modelled as written.                                                    *)
(***************************************************************************)
EXTENDS Integers, Sequences, FiniteSets, TLC

VARIABLES
  calls,     \* per caller: the call in progress, its arguments and its Exit
  locals,    \* per call: the local variables of the running thunk
  wire,      \* the last sealed message handed on by a caller
  mnemonic,  \* the last Mnemonic a caller obtained from Bip39.make
  nodeId     \* the last NodeId a caller obtained from nanoidAsNodeId

vars == <<calls, locals, wire, mnemonic, nodeId>>

(***************************************************************************)
(* Bounds of the model.                                                    *)
(***************************************************************************)
MaxPlainLen == 2
MaxPathLen == 2

\* The callers that may have a call in progress.
Callers == {1, 2}

\* Sample bytes of the plaintexts.
PlainBytes == {0, 255}

\* Seeds of the sample keys and of the sample outputs of the random source.
KeySeeds == {0, 1}
RngSeeds == {0, 1, 2}

(***************************************************************************)
(* Program constants.                                                      *)
(***************************************************************************)
NonceLength == 24
KeyLength == 32
TagLength == 16

(***************************************************************************)
(* Bytes.                                                                  *)
(***************************************************************************)
Min(a, b) == IF a < b THEN a ELSE b

RECURSIVE BitXor(_, _, _)
\* Bitwise exclusive or of the low n bits of a and b.
BitXor(a, b, n) ==
  IF n = 0 THEN 0
  ELSE (((a % 2) + (b % 2)) % 2) + 2 * BitXor(a \div 2, b \div 2, n - 1)

RECURSIVE SumTo(_, _)
SumTo(s, n) == IF n = 0 THEN 0 ELSE (s[n] + SumTo(s, n - 1)) % 256

\* The sum of the bytes of s, modulo 256.
Sum(s) == SumTo(s, Len(s))

Zeros(n) == [i \in 1..n |-> 0]

\* All sequences over the set B of length at most n.
RECURSIVE SeqsUpTo(_, _)
SeqsUpTo(B, n) ==
  IF n = 0 THEN {<<>>}
  ELSE LET S == SeqsUpTo(B, n - 1)
       IN  S \cup {Append(s, b) : s \in {t \in S : Len(t) = n - 1}, b \in B}

\* TypedArray.prototype.subarray(begin, end) for 0 <= begin, 0 <= end: both
\* ends are clamped to the length, and an inverted range is empty.
subarray(a, begin, end) ==
  LET b == Min(begin, Len(a))
      e == Min(end, Len(a))
  IN  IF e <= b THEN <<>> ELSE SubSeq(a, b + 1, e)

\* concatBytes of @noble/ciphers/utils.
concatBytes(a, b) == a \o b

\* randomBytes(n) of @noble/hashes/utils: any n bytes; the model draws from
\* a few sample outputs.
randomBytes(n) == {[i \in 1..n |-> (r * i) % 256] : r \in RngSeeds}

(***************************************************************************)
(* What a thunk run by Effect.sync does: it returns a value or throws.     *)
(***************************************************************************)
Ok(v) == [threw |-> FALSE, value |-> v, error |-> ""]
Throw(e) == [threw |-> TRUE, value |-> <<>>, error |-> e]

NoExit == [tag |-> "None", value |-> <<>>, error |-> ""]

\* Effect.try would turn a thrown exception into a typed failure.
EffectTry(r) ==
  IF r.threw THEN [tag |-> "Fail", value |-> <<>>, error |-> r.error]
  ELSE [tag |-> "Success", value |-> r.value, error |-> ""]

\* Effect.sync(thunk): the Exit of the effect.  A value is a Success; an
\* exception thrown by the thunk is a defect (Cause.Die), not a typed
\* failure: the error channel of the effect is never.
EffectSync(r) ==
  IF r.threw THEN [tag |-> "Die", value |-> <<>>, error |-> r.error]
  ELSE [tag |-> "Success", value |-> r.value, error |-> ""]

(***************************************************************************)
(* secretbox(key, nonce) of @noble/ciphers/salsa (xsalsa20poly1305).       *)
(* Stand-ins: xsalsa20 is a stream cipher (exclusive or with a key stream  *)
(* fixed by key and nonce), poly1305 a 16-byte tag of the data under a     *)
(* one-time key.  The box is laid out as in NaCl: tag, then the encrypted  *)
(* data, with the one-time key taken from the first 32 key-stream bytes.   *)
(***************************************************************************)
xsalsa20(key, nonce, data) ==
  LET k == (7 * Sum(key) + 13 * Sum(nonce) + 5) % 256
  IN  [i \in 1..Len(data) |-> BitXor(data[i], (k + 31 * i) % 256, 8)]

RECURSIVE WeightedSum(_, _, _)
WeightedSum(data, i, j) ==
  IF i > Len(data) THEN 0
  ELSE (data[i] * (2 * ((i + j) % 8) + 1) + WeightedSum(data, i + 1, j)) % 256

poly1305(data, authKey) ==
  [j \in 1..TagLength |->
     (authKey[j] + WeightedSum(data, 1, j) + Len(data)) % 256]

secretboxSeal(key, nonce, plaintext) ==
  IF Len(key) # KeyLength \/ Len(nonce) # NonceLength
  THEN Throw("invalid length")
  ELSE LET c == xsalsa20(key, nonce, Zeros(32) \o plaintext)
           authKey == subarray(c, 0, 32)
           data == subarray(c, 32, Len(c))
       IN  Ok(concatBytes(poly1305(data, authKey), data))

\* Decryption without the tag check: what xsalsa20 alone would do.
secretboxOpenUnauthenticated(key, nonce, box) ==
  IF Len(key) # KeyLength \/ Len(nonce) # NonceLength
  THEN Throw("invalid length")
  ELSE IF Len(box) < TagLength
  THEN Throw("encrypted data should be at least 16 bytes")
  ELSE LET c == Zeros(16) \o box
       IN  Ok(subarray(xsalsa20(key, nonce, c), 32, Len(c)))

secretboxOpen(key, nonce, box) ==
  IF Len(key) # KeyLength \/ Len(nonce) # NonceLength
  THEN Throw("invalid length")
  ELSE IF Len(box) < TagLength
  THEN Throw("encrypted data should be at least 16 bytes")
  ELSE LET c == Zeros(16) \o box
           authKey == xsalsa20(key, nonce, Zeros(32))
           tag == poly1305(subarray(c, 32, Len(c)), authKey)
       IN  IF subarray(c, 16, 32) # tag THEN Throw("invalid tag")
           ELSE Ok(subarray(xsalsa20(key, nonce, c), 32, Len(c)))

(***************************************************************************)
(* SecretBoxLive.                                                          *)
(***************************************************************************)
\* seal with the two parts concatenated in the wrong order.
sealThunkSwapped(key, plaintext, nonce) ==
  LET ciphertext == secretboxSeal(key, nonce, plaintext)
  IN  IF ciphertext.threw THEN ciphertext
      ELSE Ok(concatBytes(ciphertext.value, nonce))

\* The thunk of seal once the nonce is drawn.
sealThunk(key, plaintext, nonce) ==
  LET ciphertext == secretboxSeal(key, nonce, plaintext)
  IN  IF ciphertext.threw THEN ciphertext
      ELSE Ok(concatBytes(nonce, ciphertext.value))

\* The nonce cut at the tag's length instead of the nonce's.
openNonceShort(ciphertext) == subarray(ciphertext, 0, 16)

openNonce(ciphertext) == subarray(ciphertext, 0, 24)

\* The body with the nonce left in front of it.
openBodyWhole(ciphertext) == subarray(ciphertext, 0, Len(ciphertext))

openBody(ciphertext) == subarray(ciphertext, 24, Len(ciphertext))

openThunk(key, ciphertext) ==
  secretboxOpen(key, openNonce(ciphertext), openBody(ciphertext))

(***************************************************************************)
(* slip21Derive.                                                           *)
(***************************************************************************)
RECURSIVE Utf8From(_, _)
\* TextEncoder.encode of the UTF-16 code units s[i..]: one to four bytes for
\* a code point, U+FFFD (EF BF BD) for a surrogate without its pair.
Utf8From(s, i) ==
  IF i > Len(s) THEN <<>>
  ELSE LET u == s[i]
       IN  IF u < 128 THEN <<u>> \o Utf8From(s, i + 1)
           ELSE IF u < 2048
           THEN <<192 + (u \div 64), 128 + (u % 64)>> \o Utf8From(s, i + 1)
           ELSE IF u \in 55296..56319 /\ i < Len(s) /\ s[i + 1] \in 56320..57343
           THEN LET cp == 65536 + (u - 55296) * 1024 + (s[i + 1] - 56320)
                IN  <<240 + (cp \div 262144), 128 + ((cp \div 4096) % 64),
                      128 + ((cp \div 64) % 64), 128 + (cp % 64)>>
                    \o Utf8From(s, i + 2)
           ELSE IF u \in 55296..57343
           THEN <<239, 191, 189>> \o Utf8From(s, i + 1)
           ELSE <<224 + (u \div 4096), 128 + ((u \div 64) % 64),
                  128 + (u % 64)>> \o Utf8From(s, i + 1)

Utf8(s) == Utf8From(s, 1)

RECURSIVE DigestOf(_, _, _)
\* A digest of s[lo..hi] that depends on the order of the elements: the
\* digests of the two halves, mixed.
DigestOf(s, lo, hi) ==
  IF lo > hi THEN 1
  ELSE IF lo = hi THEN s[lo] + 2
  ELSE LET mid == (lo + hi) \div 2
       IN  (DigestOf(s, lo, mid) * 257 + DigestOf(s, mid + 1, hi) * 263 + 1)
             % 32749

DigestTo(s, n) == DigestOf(s, 1, n)

\* hmac(sha512, key, message) of @noble/hashes: 64 bytes fixed by the key
\* and the message.  Stand-in: each output byte is cut from the square,
\* modulo a prime, of a mix of the key's digest, the message's digest and
\* the byte's position.
hmacSha512(key, message) ==
  LET kd == DigestTo(key, Len(key))
      md == DigestTo(message, Len(message))
  IN  [j \in 1..64 |->
         LET x == (kd * 31 + md * 17 + j * 101 + 7) % 32749
         IN  ((x * x) % 32749) % 256]

\* "Symmetric key seed": a string key is UTF-8 encoded by hmac.
SymmetricKeySeed ==
  <<83, 121, 109, 109, 101, 116, 114, 105, 99, 32, 107, 101, 121, 32,
    115, 101, 101, 100>>

\* Line 72.
deriveRoot(seed) == hmacSha512(Utf8(SymmetricKeySeed), seed)

\* Lines 74-77: e = 0x00 || utf8(label).
deriveLabel(label) ==
  LET p == Utf8(label)
      e == Zeros(Len(p) + 1)
  IN  [k \in 1..Len(e) |-> IF k = 1 THEN 0 ELSE p[k - 1]]

\* The chaining key taken from the upper half of m.
deriveKeyUpper(m) == subarray(m, 32, 64)

\* Line 78: m.slice(0, 32).
deriveKey(m) == subarray(m, 0, 32)

\* Line 78.
deriveChild(m, label) == hmacSha512(deriveKey(m), deriveLabel(label))

\* Line 80: m.slice(32, 64).
deriveResult(m) == subarray(m, 32, 64)

(***************************************************************************)
(* NanoIdGenerator.Live and the NodeId schema.  Characters are UTF-16 code *)
(* units.                                                                  *)
(***************************************************************************)
\* "0123456789abcdef"
HexAlphabet ==
  <<48, 49, 50, 51, 52, 53, 54, 55, 56, 57, 97, 98, 99, 100, 101, 102>>

\* nanoid's urlAlphabet:
\* "useandom-26T198340PX75pxJACKVERYMINDBUSHWOLF_GQZbfghjklqvwyzrict"
UrlAlphabet ==
  <<117, 115, 101, 97, 110, 100, 111, 109, 45, 50, 54, 84, 49, 57, 56, 51,
    52, 48, 80, 88, 55, 53, 112, 120, 74, 65, 67, 75, 86, 69, 82, 89,
    77, 73, 78, 68, 66, 85, 83, 72, 87, 79, 76, 70, 95, 71, 81, 90,
    98, 102, 103, 104, 106, 107, 108, 113, 118, 119, 121, 122, 114, 105, 99, 116>>

\* customAlphabet(alphabet, size)() of nanoid for an alphabet whose length
\* is a power of two: character i is alphabet[bytes[i] & (length - 1)].
customAlphabet(alphabet, size, bytes) ==
  [i \in 1..size |-> alphabet[(bytes[i] % Len(alphabet)) + 1]]

\* Line 63.
nanoidForNodeId(bytes) == customAlphabet(HexAlphabet, 16, bytes)

\* Line 49: nanoid() is 21 characters of the URL alphabet.
nanoid(bytes) == customAlphabet(UrlAlphabet, 21, bytes)

\* \w of a JavaScript regular expression: [A-Za-z0-9_].
IsWordChar(u) == u \in (48..57) \cup (65..90) \cup (97..122) \cup {95}

\* Line 58: /^[\w-]{16}$/.
nodeIdPattern(s) ==
  Len(s) = 16 /\ \A i \in 1..Len(s) : IsWordChar(s[i]) \/ s[i] = 45

\* Lines 57-60: decoding a string with the NodeId schema.
decodeNodeId(s) ==
  IF nodeIdPattern(s) THEN [tag |-> "Success", value |-> s, error |-> ""]
  ELSE [tag |-> "Fail", value |-> <<>>, error |-> "ParseError"]

(***************************************************************************)
(* Bip39: Crypto.ts declares the service (make, toSeed, parse) and its     *)
(* InvalidMnemonicError; the implementation is in another package.  make   *)
(* and parse are modelled from the specification: 128 bits of entropy and  *)
(* a 4-bit checksum as 12 words of 11 bits.  A word is its index in the    *)
(* 2048-entry list; an index from 2048 on is a token that is not in the    *)
(* list.  A mnemonic string is the sequence of its words.                  *)
(***************************************************************************)
Bit(x, n) == (x \div (2 ^ n)) % 2

RECURSIVE BitsValue(_, _, _)
\* The number written by the n bits of bits from position from on.
BitsValue(bits, from, n) ==
  IF n = 0 THEN 0
  ELSE 2 * BitsValue(bits, from, n - 1) + bits[from + n - 1]

\* The first 4 bits of the hash of the entropy (stand-in for SHA-256).
checksumBits(entropy) ==
  LET h == (DigestTo(entropy, Len(entropy)) + 7) % 16
  IN  <<Bit(h, 3), Bit(h, 2), Bit(h, 1), Bit(h, 0)>>

entropyToMnemonic(entropy) ==
  LET bits == [k \in 1..(8 * Len(entropy)) |->
                 Bit(entropy[((k - 1) \div 8) + 1], 7 - ((k - 1) % 8))]
              \o checksumBits(entropy)
  IN  [w \in 1..12 |-> BitsValue(bits, 11 * (w - 1) + 1, 11)]

InWordlist(word) == word \in 0..2047

\* The entropy the 12 words of a candidate encode.
mnemonicEntropy(words) ==
  LET bits == [k \in 1..132 |->
                 Bit(words[((k - 1) \div 11) + 1], 10 - ((k - 1) % 11))]
  IN  [b \in 1..16 |-> BitsValue(bits, 8 * (b - 1) + 1, 8)]

\* The checksum the 12 words of a candidate carry: the last 4 bits.
mnemonicChecksum(words) ==
  LET last == words[12]
  IN  <<Bit(last, 3), Bit(last, 2), Bit(last, 1), Bit(last, 0)>>

\* Validation without the checksum.
validateMnemonicNoChecksum(words) ==
  /\ Len(words) = 12
  /\ \A i \in 1..Len(words) : InWordlist(words[i])

validateMnemonic(words) ==
  /\ Len(words) = 12
  /\ \A i \in 1..Len(words) : InWordlist(words[i])
  /\ mnemonicChecksum(words) = checksumBits(mnemonicEntropy(words))

\* Bip39.parse: the candidate as a Mnemonic, or InvalidMnemonicError.
bip39Parse(words) ==
  IF validateMnemonic(words)
  THEN [tag |-> "Success", value |-> words, error |-> ""]
  ELSE [tag |-> "Fail", value |-> <<>>, error |-> "InvalidMnemonicError"]

(***************************************************************************)
(* Calls.  A caller starts a call with its arguments, the thunk runs, and  *)
(* the caller takes the Exit.  The local variables of a thunk (nonce, m,   *)
(* i, ...) are declared inside the thunk: each call has its own.           *)
(***************************************************************************)
NoCall ==
  [op |-> "none", pc |-> "idle", key |-> <<>>, data |-> <<>>,
   path |-> <<>>, draw |-> <<>>, exit |-> NoExit]

NoLocals == [nonce |-> <<>>, body |-> <<>>, m |-> <<>>, i |-> 0]

NoWire == [sealed |-> FALSE, key |-> <<>>, plaintext |-> <<>>, out |-> <<>>]

\* One slot of locals shared by every call: what module-level variables
\* would be.
SharedSlot(c) == 1

\* The locals of caller c's call.
Slot(c) == c

KeysOf(seeds) == {[i \in 1..KeyLength |-> (k + i) % 256] : k \in seeds}

Keys == KeysOf(KeySeeds)

Plaintexts == SeqsUpTo(PlainBytes, MaxPlainLen)

FlipBit(s, p, k) == [s EXCEPT ![p] = BitXor(s[p], 2 ^ k, 8)]

\* The byte strings a caller may hand to open: the message on the wire,
\* each single-bit change of it and each proper prefix of it.
OpenInputs ==
  IF ~wire.sealed THEN {<<>>}
  ELSE {wire.out}
       \cup {FlipBit(wire.out, p, k) : p \in 1..Len(wire.out), k \in 0..7}
       \cup {SubSeq(wire.out, 1, n) : n \in 0..(Len(wire.out) - 1)}

Init ==
  /\ calls = [c \in Callers |-> NoCall]
  /\ locals = [c \in Callers |-> NoLocals]
  /\ wire = NoWire
  /\ mnemonic = <<>>
  /\ nodeId = <<>>

\* seal, line 103: a caller calls seal with a key and a plaintext of the
\* given sets, and the nonce is drawn.
SealDraw(c, keys, plaintexts) ==
  /\ calls[c].pc = "idle"
  /\ \E key \in keys, plaintext \in plaintexts,
        nonce \in randomBytes(NonceLength) :
       /\ calls' = [calls EXCEPT ![c] =
            [NoCall EXCEPT !.op = "seal", !.pc = "drawn", !.key = key,
                           !.data = plaintext, !.draw = nonce]]
       /\ locals' = [locals EXCEPT ![Slot(c)] =
            [NoLocals EXCEPT !.nonce = nonce]]
  /\ UNCHANGED <<wire, mnemonic, nodeId>>

\* seal, lines 104-105: the box is computed and appended to the nonce.
SealFinish(c) ==
  /\ calls[c].op = "seal" /\ calls[c].pc = "drawn"
  /\ calls' = [calls EXCEPT ![c].pc = "done",
       ![c].exit = EffectSync(sealThunk(calls[c].key, calls[c].data,
                                        locals[Slot(c)].nonce))]
  /\ UNCHANGED <<locals, wire, mnemonic, nodeId>>

\* open, lines 108-112: a caller calls open with a key and a ciphertext of
\* the given sets.
Open(c, keys, ciphertexts) ==
  /\ calls[c].pc = "idle"
  /\ \E key \in keys, ciphertext \in ciphertexts :
       /\ locals' = [locals EXCEPT ![Slot(c)] =
            [NoLocals EXCEPT !.nonce = openNonce(ciphertext),
                             !.body = openBody(ciphertext)]]
       /\ calls' = [calls EXCEPT ![c] =
            [NoCall EXCEPT !.op = "open", !.pc = "done", !.key = key,
                           !.data = ciphertext,
                           !.exit = EffectSync(openThunk(key, ciphertext))]]
  /\ UNCHANGED <<wire, mnemonic, nodeId>>

\* The caller takes the Exit of its finished call; a sealed message is
\* handed on, a Mnemonic or NodeId is kept.
Return(c) ==
  /\ calls[c].pc = "done"
  /\ calls' = [calls EXCEPT ![c] = NoCall]
  /\ locals' = [locals EXCEPT ![Slot(c)] = NoLocals]
  /\ wire' = IF calls[c].op = "seal" /\ calls[c].exit.tag = "Success"
             THEN [sealed |-> TRUE, key |-> calls[c].key,
                   plaintext |-> calls[c].data, out |-> calls[c].exit.value]
             ELSE wire
  /\ mnemonic' = IF calls[c].op = "make" THEN calls[c].exit.value
                 ELSE mnemonic
  /\ nodeId' = IF calls[c].op = "nanoidAsNodeId" THEN calls[c].exit.value
               ELSE nodeId

(***************************************************************************)
(* slip21Derive, one action per step of the thunk.                         *)
(***************************************************************************)
Seeds == {[i \in 1..64 |-> (s * i + s) % 256] : s \in {0, 1}}

\* Labels: "", "S", U+00E9, U+20AC, U+1F600 (a surrogate pair) and a
\* surrogate alone.
Labels == {<<>>, <<83>>, <<233>>, <<8364>>, <<55357, 56832>>, <<55296>>}

Paths == SeqsUpTo(Labels, MaxPathLen)

\* Line 72 and the loop's let i = 0.
DeriveStart(c, seeds, paths) ==
  /\ calls[c].pc = "idle"
  /\ \E seed \in seeds, path \in paths :
       /\ calls' = [calls EXCEPT ![c] =
            [NoCall EXCEPT !.op = "derive", !.pc = "loop", !.data = seed,
                           !.path = path]]
       /\ locals' = [locals EXCEPT ![Slot(c)] =
            [NoLocals EXCEPT !.m = deriveRoot(seed), !.i = 0]]
  /\ UNCHANGED <<wire, mnemonic, nodeId>>

\* Lines 73-79: one turn of the loop.
DeriveStep(c) ==
  /\ calls[c].op = "derive" /\ calls[c].pc = "loop"
  /\ locals[Slot(c)].i < Len(calls[c].path)
  /\ LET l == locals[Slot(c)]
     IN  locals' = [locals EXCEPT ![Slot(c)] =
           [l EXCEPT !.m = deriveChild(l.m, calls[c].path[l.i + 1]),
                     !.i = l.i + 1]]
  /\ UNCHANGED <<calls, wire, mnemonic, nodeId>>

\* Line 80: the loop is over and the upper half of m is returned.
DeriveEnd(c) ==
  /\ calls[c].op = "derive" /\ calls[c].pc = "loop"
  /\ locals[Slot(c)].i >= Len(calls[c].path)
  /\ calls' = [calls EXCEPT ![c].pc = "done",
       ![c].exit = EffectSync(Ok(deriveResult(locals[Slot(c)].m)))]
  /\ UNCHANGED <<locals, wire, mnemonic, nodeId>>

NextSlip ==
  \/ DeriveStart(1, Seeds, Paths)
  \/ DeriveStep(1)
  \/ DeriveEnd(1)
  \/ Return(1)

SpecSlip == Init /\ [][NextSlip]_vars

(***************************************************************************)
(* NanoIdGenerator.Live and the NodeId schema.                             *)
(***************************************************************************)
\* Line 50.
NanoidAsNodeId(c) ==
  /\ calls[c].pc = "idle"
  /\ \E bytes \in randomBytes(24) :
       calls' = [calls EXCEPT ![c] =
         [NoCall EXCEPT !.op = "nanoidAsNodeId", !.pc = "done",
                        !.draw = bytes,
                        !.exit = EffectSync(Ok(nanoidForNodeId(bytes)))]]
  /\ UNCHANGED <<locals, wire, mnemonic, nodeId>>

\* Line 49.
Nanoid(c) ==
  /\ calls[c].pc = "idle"
  /\ \E bytes \in randomBytes(24) :
       calls' = [calls EXCEPT ![c] =
         [NoCall EXCEPT !.op = "nanoid", !.pc = "done", !.draw = bytes,
                        !.exit = EffectSync(Ok(nanoid(bytes)))]]
  /\ UNCHANGED <<locals, wire, mnemonic, nodeId>>

\* "GGGGGGGGGGGGGGGG", "ABCDEFGHIJ_-0123", "0123456789ABCDEF",
\* "0123456789abcdef", 15 and 17 hexadecimal digits, and a string with a
\* space.
SampleIds ==
  {[i \in 1..16 |-> 71],
   <<65, 66, 67, 68, 69, 70, 71, 72, 73, 74, 95, 45, 48, 49, 50, 51>>,
   <<48, 49, 50, 51, 52, 53, 54, 55, 56, 57, 65, 66, 67, 68, 69, 70>>,
   HexAlphabet,
   SubSeq(HexAlphabet, 1, 15),
   Append(HexAlphabet, 48),
   [HexAlphabet EXCEPT ![8] = 32]}

\* The strings a caller may decode as a NodeId: the samples, the NodeId it
\* holds, and that NodeId with one character replaced.
DecodeInputs ==
  SampleIds
  \cup (IF nodeId = <<>> THEN {}
        ELSE {nodeId}
             \cup {[nodeId EXCEPT ![p] = u] : p \in 1..16, u \in {71, 45, 32}})

\* Lines 57-60: a string is decoded with the NodeId schema.
DecodeNodeId(c, inputs) ==
  /\ calls[c].pc = "idle"
  /\ \E s \in inputs :
       calls' = [calls EXCEPT ![c] =
         [NoCall EXCEPT !.op = "decodeNodeId", !.pc = "done", !.data = s,
                        !.exit = decodeNodeId(s)]]
  /\ UNCHANGED <<locals, wire, mnemonic, nodeId>>

NextIds ==
  \/ NanoidAsNodeId(1)
  \/ Nanoid(1)
  \/ DecodeNodeId(1, DecodeInputs)
  \/ Return(1)

SpecIds == Init /\ [][NextIds]_vars

(***************************************************************************)
(* Bip39.                                                                  *)
(***************************************************************************)
\* Bip39.make.
Bip39Make(c) ==
  /\ calls[c].pc = "idle"
  /\ \E entropy \in randomBytes(16) :
       calls' = [calls EXCEPT ![c] =
         [NoCall EXCEPT !.op = "make", !.pc = "done", !.draw = entropy,
                        !.exit = EffectSync(Ok(entropyToMnemonic(entropy)))]]
  /\ UNCHANGED <<locals, wire, mnemonic, nodeId>>

\* The candidates a caller may parse: the Mnemonic it holds, that Mnemonic
\* with one word replaced by a token that is not in the list, with its last
\* word replaced by any of the given words, without its last word, and with
\* a thirteenth word.
ParseInputs(lastWords) ==
  IF mnemonic = <<>> THEN {<<>>}
  ELSE {mnemonic, SubSeq(mnemonic, 1, 11), Append(mnemonic, 0)}
       \cup {[mnemonic EXCEPT ![p] = 2048] : p \in 1..12}
       \cup {[mnemonic EXCEPT ![12] = w] : w \in lastWords}

\* Bip39.parse.
Bip39Parse(c, lastWords) ==
  /\ calls[c].pc = "idle"
  /\ \E words \in ParseInputs(lastWords) :
       calls' = [calls EXCEPT ![c] =
         [NoCall EXCEPT !.op = "parse", !.pc = "done", !.data = words,
                        !.exit = bip39Parse(words)]]
  /\ UNCHANGED <<locals, wire, mnemonic, nodeId>>

NextBip ==
  \/ Bip39Make(1)
  \/ Bip39Parse(1, 0..2047)
  \/ Return(1)

SpecBip == Init /\ [][NextBip]_vars

\* One caller sealing and opening.
NextBox ==
  \/ SealDraw(1, Keys, Plaintexts)
  \/ SealFinish(1)
  \/ Open(1, Keys, OpenInputs)
  \/ Return(1)

SpecBox == Init /\ [][NextBox]_vars

(***************************************************************************)
(* Every operation, called by two callers whose calls interleave step by   *)
(* step, over a few inputs each.                                           *)
(***************************************************************************)
FewOpenInputs ==
  IF ~wire.sealed THEN {<<>>}
  ELSE {wire.out, FlipBit(wire.out, 1, 0), SubSeq(wire.out, 1, 39)}

Next ==
  \E c \in Callers :
    \/ SealDraw(c, KeysOf({1}), {<<255>>})
    \/ SealFinish(c)
    \/ Open(c, KeysOf({1}), FewOpenInputs)
    \/ DeriveStart(c, {Zeros(64)}, SeqsUpTo({<<83>>, <<233>>}, 1))
    \/ DeriveStep(c)
    \/ DeriveEnd(c)
    \/ NanoidAsNodeId(c)
    \/ Nanoid(c)
    \/ Return(c)

Spec == Init /\ [][Next]_vars

(***************************************************************************)
(* Properties of SecretBoxLive.                                            *)
(***************************************************************************)
OpenDone(c) == calls[c].op = "open" /\ calls[c].pc = "done"
SealDone(c) == calls[c].op = "seal" /\ calls[c].pc = "done"

\* b is a with exactly one bit changed.
IsBitFlip(a, b) ==
  /\ Len(a) = Len(b)
  /\ LET D == {p \in 1..Len(a) : a[p] # b[p]}
     IN  /\ Cardinality(D) = 1
         /\ \A p \in D : BitXor(a[p], b[p], 8) \in {1, 2, 4, 8, 16, 32, 64, 128}

\* The position of the changed byte, 0 when the strings are equal.
FlipAt(a, b) ==
  IF a = b THEN 0 ELSE CHOOSE p \in 1..Len(a) : a[p] # b[p]

\* C1: open under the sealing key of the unmodified output of seal succeeds
\* and returns exactly the plaintext that was sealed, empty or not, whatever
\* nonce was drawn.
C1_RoundTrip ==
  \A c \in Callers :
    (OpenDone(c) /\ wire.sealed /\ calls[c].data = wire.out
       /\ calls[c].key = wire.key)
    => (calls[c].exit.tag = "Success" /\ calls[c].exit.value = wire.plaintext)

C1_Witness ==
  \E c \in Callers :
    /\ OpenDone(c) /\ wire.sealed /\ calls[c].data = wire.out
    /\ calls[c].key = wire.key /\ Len(wire.plaintext) = MaxPlainLen
    /\ calls[c].exit.value = wire.plaintext
    /\ subarray(wire.out, 0, 24) # Zeros(24)

\* C2: open under the sealing key of the output of seal with any single bit
\* changed (in the nonce, the tag or the encrypted body) fails and returns
\* no plaintext.
C2_TamperDetected ==
  \A c \in Callers :
    (OpenDone(c) /\ wire.sealed /\ calls[c].key = wire.key
       /\ IsBitFlip(wire.out, calls[c].data))
    => (calls[c].exit.tag # "Success" /\ calls[c].exit.value = <<>>)

C2_Witness ==
  \E c \in Callers :
    /\ OpenDone(c) /\ wire.sealed /\ calls[c].key = wire.key
    /\ IsBitFlip(wire.out, calls[c].data)
    /\ FlipAt(wire.out, calls[c].data) > NonceLength + TagLength
    /\ calls[c].exit.tag # "Success"

\* C3 as stated: a ciphertext shorter than 40 bytes is rejected before any
\* nonce is extracted from it.
C3_RejectedBeforeNonce ==
  \A c \in Callers :
    (OpenDone(c) /\ Len(calls[c].data) < 40)
    => /\ calls[c].exit.tag # "Success"
       /\ locals[Slot(c)].nonce = <<>>
       /\ locals[Slot(c)].body = <<>>

\* C3 as amended: open of a ciphertext shorter than 40 bytes fails and
\* returns no plaintext; the code has no length check of its own: it cuts
\* the nonce (bytes [0,24), clamped) and the body (bytes [24,end), clamped)
\* first, and the secretbox primitive rejects their lengths, without any
\* tag being compared.
C3_ShortRejectedByPrimitive ==
  \A c \in Callers :
    (OpenDone(c) /\ Len(calls[c].data) < 40)
    => /\ calls[c].exit.tag # "Success"
       /\ calls[c].exit.value = <<>>
       /\ calls[c].exit.error # "invalid tag"
       /\ locals[Slot(c)].nonce =
            SubSeq(calls[c].data, 1, Min(24, Len(calls[c].data)))
       /\ locals[Slot(c)].body = SubSeq(calls[c].data, 25, Len(calls[c].data))

C3_Witness ==
  \E c \in Callers :
    /\ OpenDone(c) /\ Len(calls[c].data) \in 24..39
    /\ calls[c].exit.tag # "Success"
    /\ Len(locals[Slot(c)].nonce) = 24
    /\ Len(locals[Slot(c)].body) = Len(calls[c].data) - 24

\* C4 as stated: every failure of open is a typed, recoverable error of the
\* effect (a Fail), distinct from a defect, and carries no plaintext.
C4_FailureIsRecoverable ==
  \A c \in Callers :
    (OpenDone(c) /\ calls[c].exit.tag # "Success")
    => (calls[c].exit.tag = "Fail" /\ calls[c].exit.value = <<>>)

\* C4 as amended: every failure of open (a ciphertext shorter than 40
\* bytes, or a tag that does not verify) is an exception thrown inside
\* Effect.sync, so the Exit is a defect (Die), never a typed failure; that
\* Exit carries no plaintext, and open succeeds only with the plaintext of
\* the unmodified message under its key.
C4_FailureIsDefect ==
  \A c \in Callers :
    OpenDone(c)
    => /\ calls[c].exit.tag \in {"Success", "Die"}
       /\ (Len(calls[c].data) < 40 \/ ~wire.sealed
             \/ calls[c].data # wire.out \/ calls[c].key # wire.key)
          => (calls[c].exit.tag = "Die" /\ calls[c].exit.value = <<>>
                /\ calls[c].exit.error # "")

C4_Witness ==
  \E c \in Callers :
    /\ OpenDone(c) /\ wire.sealed /\ Len(calls[c].data) = Len(wire.out)
    /\ calls[c].key # wire.key /\ calls[c].data = wire.out
    /\ calls[c].exit.tag = "Die" /\ calls[c].exit.error = "invalid tag"

\* C5: seal returns the nonce it drew followed by the box of the primitive
\* for (key, nonce, plaintext): len(plaintext) + 40 bytes, the first 24 of
\* them the nonce; open reads the nonce from bytes [0,24) and the body from
\* bytes [24,end).
C5_WireLayout ==
  \A c \in Callers :
    /\ SealDone(c)
       => /\ calls[c].exit.tag = "Success"
          /\ Len(calls[c].exit.value) = Len(calls[c].data) + 40
          /\ SubSeq(calls[c].exit.value, 1, 24) = locals[Slot(c)].nonce
          /\ locals[Slot(c)].nonce \in randomBytes(24)
          /\ Ok(SubSeq(calls[c].exit.value, 25, Len(calls[c].exit.value)))
               = secretboxSeal(calls[c].key, locals[Slot(c)].nonce,
                               calls[c].data)
    /\ (OpenDone(c) /\ Len(calls[c].data) >= 40)
       => /\ locals[Slot(c)].nonce = SubSeq(calls[c].data, 1, 24)
          /\ locals[Slot(c)].body =
               SubSeq(calls[c].data, 25, Len(calls[c].data))

C5_Witness ==
  \E c \in Callers :
    /\ SealDone(c) /\ Len(calls[c].data) = MaxPlainLen
    /\ Len(calls[c].exit.value) = MaxPlainLen + 40
    /\ locals[Slot(c)].nonce # Zeros(24)

(***************************************************************************)
(* Properties of slip21Derive.                                             *)
(***************************************************************************)
DeriveDone(c) == calls[c].op = "derive" /\ calls[c].pc = "done"

RECURSIVE Slip21Chain(_, _, _)
\* SLIP-21: m after the labels path[k..], starting from m.
Slip21Chain(m, path, k) ==
  IF k > Len(path) THEN m
  ELSE Slip21Chain(hmacSha512(SubSeq(m, 1, 32), <<0>> \o Utf8(path[k])),
                   path, k + 1)

Slip21Reference(seed, path) ==
  SubSeq(Slip21Chain(hmacSha512(Utf8(SymmetricKeySeed), seed), path, 1),
         33, 64)

\* C7: slip21Derive(seed, path) is the SLIP-21 reference value: 32 bytes,
\* for the empty path the upper half of the root expansion, and a function
\* of its arguments only.
C7_Slip21Reference ==
  \A c \in Callers :
    DeriveDone(c)
    => /\ calls[c].exit.tag = "Success"
       /\ calls[c].exit.value = Slip21Reference(calls[c].data, calls[c].path)
       /\ Len(calls[c].exit.value) = 32
       /\ calls[c].path = <<>>
          => calls[c].exit.value
               = SubSeq(hmacSha512(Utf8(SymmetricKeySeed), calls[c].data),
                        33, 64)

C7_Witness ==
  \E c \in Callers :
    /\ DeriveDone(c) /\ Len(calls[c].path) = MaxPathLen
    /\ calls[c].path[1] = <<55357, 56832>> /\ calls[c].path[2] = <<>>
    /\ calls[c].exit.value = Slip21Reference(calls[c].data, calls[c].path)

(***************************************************************************)
(* Properties of the identifiers.                                          *)
(***************************************************************************)
\* ^[0-9a-f]{16}$
IsLowerHex16(s) ==
  Len(s) = 16 /\ \A i \in 1..Len(s) : s[i] \in (48..57) \cup (97..102)

\* C8: every NodeId is 16 lower-case hexadecimal digits: the ones
\* nanoidAsNodeId generates, and the ones the NodeId schema accepts.
C8_NodeIdIsLowerHex ==
  \A c \in Callers :
    /\ (calls[c].op = "nanoidAsNodeId" /\ calls[c].pc = "done")
       => IsLowerHex16(calls[c].exit.value)
    /\ (calls[c].op = "decodeNodeId" /\ calls[c].pc = "done"
          /\ calls[c].exit.tag = "Success")
       => IsLowerHex16(calls[c].exit.value)

(***************************************************************************)
(* Properties of Bip39.                                                    *)
(***************************************************************************)
ParseDone(c) == calls[c].op = "parse" /\ calls[c].pc = "done"

\* C9: parse of a generated Mnemonic succeeds and returns it; parse fails
\* with InvalidMnemonicError, returning no Mnemonic, for a candidate that
\* has not 12 words, has a word that is not in the list, or whose words
\* carry a checksum other than the one recomputed from their entropy.
C9_Bip39SelfConsistent ==
  \A c \in Callers :
    /\ (calls[c].op = "make" /\ calls[c].pc = "done")
       => (calls[c].exit.tag = "Success"
             /\ bip39Parse(calls[c].exit.value) = calls[c].exit)
    /\ ParseDone(c)
       => /\ (mnemonic # <<>> /\ calls[c].data = mnemonic)
             => (calls[c].exit.tag = "Success"
                   /\ calls[c].exit.value = mnemonic)
          /\ (\/ Len(calls[c].data) # 12
              \/ \E i \in 1..Len(calls[c].data) : calls[c].data[i] > 2047
              \/ mnemonicChecksum(calls[c].data)
                   # checksumBits(mnemonicEntropy(calls[c].data)))
             => (calls[c].exit.tag = "Fail" /\ calls[c].exit.value = <<>>
                   /\ calls[c].exit.error = "InvalidMnemonicError")

C9_Witness ==
  \E c \in Callers :
    /\ ParseDone(c) /\ mnemonic # <<>> /\ Len(calls[c].data) = 12
    /\ SubSeq(calls[c].data, 1, 11) = SubSeq(mnemonic, 1, 11)
    /\ calls[c].data[12] # mnemonic[12] /\ calls[c].data[12] <= 2047
    /\ calls[c].exit.tag = "Fail"
    /\ calls[c].exit.error = "InvalidMnemonicError"

(***************************************************************************)
(* Properties of interleaved calls.                                        *)
(***************************************************************************)
\* What a call returns when it runs alone: a function of its arguments and
\* of the bytes it drew.
ExitAlone(call) ==
  CASE call.op = "seal" ->
         EffectSync(sealThunk(call.key, call.data, call.draw))
    [] call.op = "open" -> EffectSync(openThunk(call.key, call.data))
    [] call.op = "derive" ->
         EffectSync(Ok(Slip21Reference(call.data, call.path)))
    [] call.op = "nanoidAsNodeId" ->
         EffectSync(Ok(nanoidForNodeId(call.draw)))
    [] call.op = "nanoid" -> EffectSync(Ok(nanoid(call.draw)))
    [] OTHER -> call.exit

\* C10: however the steps of two callers' calls interleave, each finished
\* call has the result it has when run alone, fixed by its own arguments
\* and its own random bytes, and a call in progress works on the locals of
\* its own thunk.
C10_CallsIndependent ==
  \A c \in Callers :
    /\ calls[c].pc = "done" => calls[c].exit = ExitAlone(calls[c])
    /\ (calls[c].op = "seal" /\ calls[c].pc = "drawn")
       => locals[Slot(c)].nonce = calls[c].draw
    /\ (calls[c].op = "derive" /\ calls[c].pc = "loop")
       => /\ locals[Slot(c)].i <= Len(calls[c].path)
          /\ locals[Slot(c)].m
               = Slip21Chain(deriveRoot(calls[c].data),
                             SubSeq(calls[c].path, 1, locals[Slot(c)].i), 1)

C10_Witness ==
  /\ calls[1].op = "derive" /\ calls[1].pc = "done" /\ Len(calls[1].path) = 1
  /\ calls[2].op = "derive" /\ calls[2].pc = "loop"
  /\ calls[2].path # calls[1].path /\ locals[Slot(2)].i = 1
  /\ calls[1].exit.value = Slip21Reference(calls[1].data, calls[1].path)

====
